---- MODULE Spec2Model ----
(***************************************************************************)
(* The shout detector of app/analyze/shout_service.py as a state machine.  *)
(*                                                                         *)
(* Units.  A signal is a sequence of blocks; a block stands for BLOCK      *)
(* consecutive samples (10 ms at 16 kHz) of one magnitude, given in        *)
(* percent of full scale (FULL_SCALE = 100 stands for 32768.0), and the    *)
(* whole buffer is scaled by gain decibels (a real-valued recording gain,  *)
(* <= 0).  Decibel values are integers in units of 1/DB dB (half a         *)
(* milli-decibel), so that the mean of two of them is again an integer.    *)
(* A negative block value -a stands for a block that is silent but for a   *)
(* click: one sample in CLICK_DIV of the block (1 ms) at magnitude a.      *)
(* Logarithms are computed by LogMdb to about +-2 mdB.                     *)
(***************************************************************************)
EXTENDS Integers, Sequences, FiniteSets, TLC

\* ---------------------------------------------------------------- constants
TARGET_SR == 16000
WIN_MS == 200
\* a hop as long as the window: frames that do not overlap
HOP_NO_OVERLAP == WIN_MS
HOP_MS == 100
MIN_RUN_MS == 400
\* model units per decibel
DB == 2 * 1000
THRESH_DBFS == (0 - 18) * DB
MAX_CREST_DB == 18 * DB
\* 20*log10(1e-9): the floor of dbfs_from_rms
FLOOR_DBFS == (0 - 180) * DB
\* the value peak_db is (re)set to
PEAK_RESET_DB == (0 - 120) * DB
\* the margin added to the median
MARGIN_DB == 20 * DB
\* confidence 0.6, in hundredths
CONFIDENCE == 60
\* 32768.0, in the model's amplitude unit (percent of full scale)
FULL_SCALE == 100
\* samples per block: 10 ms at the canonical rate
BLOCK == TARGET_SR \div 100
\* a click block has one sample in CLICK_DIV at the click's magnitude
CLICK_DIV == 10

\* Python's None and a present value
None == << >>
Some(v) == << v >>
Val(o) == o[1]

Max(a, b) == IF a >= b THEN a ELSE b
Min(a, b) == IF a <= b THEN a ELSE b

\* ------------------------------------------------------------------- bounds
\* the largest number of constant-magnitude segments of an input signal
MaxSegs == 3

\* the number of iterations frame_signal's loop is followed for when its
\* offset does not advance
MaxFrames == 3

\* ------------------------------------------------------------------ inputs
\* <<magnitude, length in blocks>> of the decoded samples: silence, a 20 ms
\* full-scale spike, a tone at about -5 dBFS (56 %), a quiet tone at about
\* -30 dBFS (3 %), a full-scale tone, and an overdriven tone (150 %, as a float
\* file or the resampler's overshoot gives)
SEGS ==
    { <<0, 1>>, <<0, 9>>, <<0, 10>>, <<0, 19>>, <<0, 30>>, <<0, 45>>,
      <<100, 2>>,
      <<56, 10>>, <<56, 30>>, <<56, 45>>,
      <<3, 30>>,
      <<100, 30>>,
      <<150, 30>> }

GAINS == { 0, 0 - 120 }

Blocks(seg) == [k \in 1..seg[2] |-> seg[1]]

RECURSIVE Concat(_)
Concat(segs) ==
    IF segs = << >> THEN << >>
    ELSE Blocks(Head(segs)) \o Concat(Tail(segs))

SegSeqs(n) == [1..n -> SEGS]

Signals == { Concat(s) : s \in UNION { SegSeqs(n) : n \in 0..MaxSegs } }

\* --------------------------------------------------------------- arithmetic
RECURSIVE Decades(_, _)
\* how many times d can be multiplied by 10 and stay <= n
Decades(n, d) == IF n >= 10 * d THEN 1 + Decades(n, 10 * d) ELSE 0

RECURSIVE Pow10(_)
Pow10(e) == IF e = 0 THEN 1 ELSE 10 * Pow10(e - 1)

\* floor(10^4 * 10^(k/10)), floor(10^4 * 10^(k/100)), ... for k = 0..9
T1 == <<10000, 12589, 15848, 19952, 25118, 31622, 39810, 50118, 63095, 79432>>
T2 == <<10000, 10232, 10471, 10715, 10964, 11220, 11481, 11748, 12022, 12302>>
T3 == <<10000, 10023, 10046, 10069, 10092, 10115, 10139, 10162, 10185, 10209>>
T4 == <<10000, 10002, 10004, 10006, 10009, 10011, 10013, 10016, 10018, 10020>>

\* the largest k with T[k] <= m (m >= 10000)
Digit(m, T) == CHOOSE k \in 1..10 : T[k] <= m /\ (k = 10 \/ T[k + 1] > m)

\* 10*log10(n/d) in milli-decibels, for n >= d >= 1 and n <= 200000
LogMdb(n, d) ==
    LET dec == Decades(n, d)
        m0 == (n * 10000) \div (d * Pow10(dec))
        k1 == Digit(m0, T1)
        m1 == (m0 * 10000) \div T1[k1]
        k2 == Digit(m1, T2)
        m2 == (m1 * 10000) \div T2[k2]
        k3 == Digit(m2, T3)
        m3 == (m2 * 10000) \div T3[k3]
        k4 == Digit(m3, T4)
    IN  10000 * dec + 1000 * (k1 - 1) + 100 * (k2 - 1) + 10 * (k3 - 1) + (k4 - 1)

RECURSIVE LogScaled(_, _)
\* LogMdb(n, d) for n >= d >= 1, n and d halved until n is in LogMdb's range
LogScaled(n, d) ==
    IF n > 200000 THEN LogScaled(n \div 2, d \div 2) ELSE LogMdb(n, d)

\* 10*log10(n/d) in model units, for n, d >= 1
Log10Db(n, d) ==
    IF n >= d THEN (DB \div 1000) * LogScaled(n, d)
    ELSE 0 - (DB \div 1000) * LogScaled(d, n)

\* round(x, 2) of a decibel value: to the nearest hundredth of a dB, ties to even
Round2Db(x) ==
    LET step == DB \div 100
        q == x \div step
        r == x - step * q
    IN  IF 2 * r < step THEN step * q
        ELSE IF 2 * r > step THEN step * (q + 1)
        ELSE IF q % 2 = 0 THEN step * q ELSE step * (q + 1)

SquareMod1000(x) == (x * x) % 1000

RECURSIVE Pow2Mod1000(_)
\* 2^k modulo 1000
Pow2Mod1000(k) ==
    IF k = 0 THEN 1
    ELSE IF k % 2 = 0 THEN SquareMod1000(Pow2Mod1000(k \div 2))
    ELSE (2 * Pow2Mod1000(k - 1)) % 1000

RECURSIVE Exp2(_, _)
\* the binary exponent of the quotient n / d (n, d >= 1): the p with
\* 2^p <= n / d < 2^(p + 1)
Exp2(n, d) ==
    IF n < d THEN Exp2(2 * n, d) - 1
    ELSE IF n >= 2 * d THEN Exp2(n, 2 * d) + 1
    ELSE 0

\* the remainder that is lost when ms / 1000.0 is stored as a double with a
\* 53-bit mantissa, in thousandths of its last bit: 0 when the quotient is
\* stored exactly, under 500 when the double is below it, over 500 when above
DoubleRem(ms) == ((ms % 1000) * Pow2Mod1000(52 - Exp2(ms, 1000))) % 1000

\* round(x, 2) to the nearest hundredth whichever way a tie goes
Round2SecHalfUp(ms) == (ms + 5) \div 10

\* round(duration_ms / 1000.0, 2), in hundredths of a second: the double
\* nearest to duration_ms / 1000 is rounded, so that a decimal tie goes the
\* way the double is off, and to the even hundredth when the double is exact
Round2Sec(ms) ==
    LET q == ms \div 10
        r == ms % 10
    IN  IF r < 5 THEN q
        ELSE IF r > 5 THEN q + 1
        ELSE IF ms = 0 \/ DoubleRem(ms) = 0 THEN (IF q % 2 = 0 THEN q ELSE q + 1)
        ELSE IF DoubleRem(ms) < 500 THEN q
        ELSE q + 1

\* offset * 1000 / sr, rounded to the nearest integer
ToMsNearest(off, rate) == (2 * off * 1000 + rate) \div (2 * rate)

\* int(offset * 1000 / sr)
ToMs(off, rate) == (off * 1000) \div rate

\* ------------------------------------------------------------ normalization
\* no clipping
ClipSampleNone(x, g) == x

\* np.clip(samples, -1.0, 1.0), on a magnitude x of a buffer of gain g: the
\* sample is x * 10^(g/20), and a gain of -10 dB or less brings every
\* magnitude up to 316 % under full scale
ClipSample(x, g) ==
    IF g # 0 THEN x
    ELSE IF x < 0 THEN 0 - Min(0 - x, FULL_SCALE)
    ELSE Min(x, FULL_SCALE)

\* to_mono_16k on mono samples at 16 kHz: clip, then scale to 32768
ToMono16k(smp, g) == [k \in 1..Len(smp) |-> ClipSample(smp[k], g)]

RECURSIVE Gcd(_, _)
Gcd(a, b) == IF b = 0 THEN a ELSE Gcd(b, a % b)

\* resample_poly(samples, up, down) on samples at the given rate, block k
\* being the k-th 10 ms of them: ceil(n * up / down) samples come out, and an
\* output sample has the magnitude of the input at the same time
Resample(smp, rate) ==
    LET gcd == Gcd(rate, TARGET_SR)
        up == TARGET_SR \div gcd
        down == rate \div gcd
        per == rate \div 100
        n == Len(smp) * per
        m == (n * up + down - 1) \div down
    IN  [k \in 1..(m \div BLOCK) |-> smp[((((k - 1) * BLOCK) * down) \div up) \div per + 1]]

\* the samples are not resampled
ToMono16kAsIs(smp, g, rate) == ToMono16k(smp, g)

\* to_mono_16k on mono samples at any rate: resample when the rate is not
\* TARGET_SR, then clip and scale
ToMono16kAt(smp, g, rate) ==
    ToMono16k(IF rate # TARGET_SR THEN Resample(smp, rate) ELSE smp, g)

\* ------------------------------------------------------------------ framing
\* len(signal), in samples
SigLen(sig) == Len(sig) * BLOCK

\* int(sr * ms / 1000)
MsToSamples(rate, ms) == (rate * ms) \div 1000

\* a partial window counts as a frame
FrameFitsPartial(off, w, sig) == off < SigLen(sig)

\* the loop condition of frame_signal
FrameFits(off, w, sig) == off + w <= SigLen(sig)

\* signal[a : b], a and b in samples (Python clamps the slice to the signal)
Slice(sig, a, b) ==
    SubSeq(sig, (a \div BLOCK) + 1, Min(b, SigLen(sig)) \div BLOCK)

\* --------------------------------------------------------------- features
\* the mean square of a block's samples, and their largest magnitude
Energy(x) == IF x < 0 THEN (x * x) \div CLICK_DIV ELSE x * x
Mag(x) == IF x < 0 THEN 0 - x ELSE x

RECURSIVE SumSq(_)
SumSq(seg) == IF seg = << >> THEN 0 ELSE Energy(Head(seg)) + SumSq(Tail(seg))

RECURSIVE PeakOf(_)
PeakOf(seg) == IF seg = << >> THEN 0 ELSE Max(Mag(Head(seg)), PeakOf(Tail(seg)))

\* rms(seg): kept as the mean square, the rational num / den (the 1e-9 that
\* rms adds decides only the all-zero frame, num = 0)
Rms(seg) == [num |-> SumSq(seg), den |-> Len(seg)]

\* dbfs_from_rms: 20*log10(max(rms / 32768.0, 1e-9)), g the buffer's gain in dB
DbfsFromRms(r, g) ==
    IF r.num = 0 THEN FLOOR_DBFS
    ELSE Max(FLOOR_DBFS,
             g * DB - Log10Db(r.den * FULL_SCALE * FULL_SCALE, r.num))

\* crest_factor_db: 20*log10(peak / rms); 1e-9 / 1e-9 = 1 for an all-zero frame
CrestFactorDb(seg, r) ==
    IF r.num = 0 THEN 0
    ELSE Log10Db(PeakOf(seg) * PeakOf(seg) * r.den, r.num)

\* one entry of stats: (index, segment, db, crest_db), the segment left out
FrameStat(sig, g, index, w) ==
    LET segment == Slice(sig, index, index + w)
        r == Rms(segment)
    IN  [index |-> index, db |-> DbfsFromRms(r, g), crest_db |-> CrestFactorDb(segment, r)]

StatsOf(sig, g, ix, w) == [k \in 1..Len(ix) |-> FrameStat(sig, g, ix[k], w)]

\* ---------------------------------------------------------------- threshold
DbValues(st) == [k \in 1..Len(st) |-> st[k].db]

CountLt(s, v) == Cardinality({k \in 1..Len(s) : s[k] < v})
CountLe(s, v) == Cardinality({k \in 1..Len(s) : s[k] <= v})

\* the k-th smallest entry of s
Kth(s, k) ==
    CHOOSE v \in {s[j] : j \in 1..Len(s)} : CountLt(s, v) < k /\ k <= CountLe(s, v)

\* np.median: the middle entry, or the mean of the two middle entries (every
\* decibel value of the model is even, so the mean is exact)
Median(s) ==
    LET n == Len(s)
    IN  IF n % 2 = 1 THEN Kth(s, (n + 1) \div 2)
        ELSE (Kth(s, n \div 2) + Kth(s, (n \div 2) + 1)) \div 2

\* the lower of the two middle entries for their mean
MedianDbLow(st) ==
    IF Len(st) > 0 THEN Kth(DbValues(st), (Len(st) + 1) \div 2) ELSE (0 - 120) * DB

MedianDb(st) == IF Len(st) > 0 THEN Median(DbValues(st)) ELSE (0 - 120) * DB

\* the margin left out
DynamicThresholdNoMargin(median) == Min(THRESH_DBFS, median)

\* the larger of the two for the smaller
DynamicThresholdMax(median) == Max(THRESH_DBFS, median + MARGIN_DB)

DynamicThreshold(median) == Min(THRESH_DBFS, median + MARGIN_DB)

\* ------------------------------------------------------------ run detector
Loud(f, thr) == f.db >= thr

\* a crest factor of exactly MAX_CREST_DB passes
NotImpulsiveInclusive(f) == f.crest_db <= MAX_CREST_DB

NotImpulsive(f) == f.crest_db < MAX_CREST_DB

Qualifies(f, thr) == Loud(f, thr) /\ NotImpulsive(f)

\* the run counted from its first frame's start to its last frame's start
DurationMsToLastStart(rs, re, rate) == ((re - rs) * 1000) \div rate - WIN_MS

DurationMs(rs, re, rate) == ((re - rs) * 1000) \div rate

\* the gate with > for >=
GatePassesStrict(duration_ms) == duration_ms > MIN_RUN_MS

GatePasses(duration_ms) == duration_ms >= MIN_RUN_MS

\* an absent result that carries a confidence
AbsentWithConfidence ==
    [present |-> FALSE, start_ms |-> None, end_ms |-> None, peak_dbfs |-> None,
     duration_seconds |-> None, confidence |-> Some(0)]

AbsentResult ==
    [present |-> FALSE, start_ms |-> None, end_ms |-> None, peak_dbfs |-> None,
     duration_seconds |-> None, confidence |-> None]

\* the ShoutResult returned from inside the loop
MidStreamResult(rs, re, pk, rate) ==
    [present |-> TRUE,
     start_ms |-> Some(ToMs(rs, rate)),
     end_ms |-> Some(ToMs(re, rate)),
     peak_dbfs |-> Some(Round2Db(pk)),
     duration_seconds |-> Some(Round2Sec(DurationMs(rs, re, rate))),
     confidence |-> Some(CONFIDENCE)]

\* the end-of-stream result with a confidence that grows with the duration
EndResultScaled(rs, re, pk, rate) ==
    [present |-> TRUE,
     start_ms |-> Some(ToMs(rs, rate)),
     end_ms |-> Some(ToMs(re, rate)),
     peak_dbfs |-> Some(Round2Db(pk)),
     duration_seconds |-> Some(Round2Sec(DurationMs(rs, re, rate))),
     confidence |-> Some(Min(100, CONFIDENCE + (DurationMs(rs, re, rate) - MIN_RUN_MS) \div 10))]

\* the ShoutResult returned after the loop
EndResult(rs, re, pk, rate) ==
    [present |-> TRUE,
     start_ms |-> Some(ToMs(rs, rate)),
     end_ms |-> Some(ToMs(re, rate)),
     peak_dbfs |-> Some(Round2Db(pk)),
     duration_seconds |-> Some(Round2Sec(DurationMs(rs, re, rate))),
     confidence |-> Some(CONFIDENCE)]

\* the locals of the scan: run_start, run_end, peak_db, and ret, the value
\* returned from inside the loop (None while the loop goes on)
LoopInit ==
    [run_start |-> None, run_end |-> None, peak_db |-> PEAK_RESET_DB, ret |-> None]

\* every qualifying frame starts the run anew
ExtendRunRestart(s, f, w) ==
    [s EXCEPT !.run_start = Some(f.index),
              !.run_end = Some(f.index + w),
              !.peak_db = Max(@, f.db)]

\* the frame starts or extends a run
ExtendRun(s, f, w) ==
    [s EXCEPT !.run_start = IF @ = None THEN Some(f.index) ELSE @,
              !.run_end = Some(f.index + w),
              !.peak_db = Max(@, f.db)]

\* the run that passes the gate is dropped like one that fails it: no return
CloseRunNoReturn(s, rate) ==
    [s EXCEPT !.run_start = None, !.run_end = None, !.peak_db = PEAK_RESET_DB]

\* a discarded run leaves its peak behind
CloseRunKeepsPeak(s, rate) ==
    IF GatePasses(DurationMs(Val(s.run_start), Val(s.run_end), rate))
    THEN [s EXCEPT !.ret = Some(MidStreamResult(Val(s.run_start), Val(s.run_end),
                                                s.peak_db, rate))]
    ELSE [s EXCEPT !.run_start = None, !.run_end = None]

\* the frame closes the open run: emit it, or discard it
CloseRun(s, rate) ==
    IF GatePasses(DurationMs(Val(s.run_start), Val(s.run_end), rate))
    THEN [s EXCEPT !.ret = Some(MidStreamResult(Val(s.run_start), Val(s.run_end),
                                                s.peak_db, rate))]
    ELSE [s EXCEPT !.run_start = None, !.run_end = None, !.peak_db = PEAK_RESET_DB]

\* one iteration of the loop over stats
LoopStep(s, f, thr, w, rate) ==
    IF Qualifies(f, thr) THEN ExtendRun(s, f, w)
    ELSE IF s.run_start # None THEN CloseRun(s, rate)
    ELSE s

\* the open run is forgotten at the end of the frames
FinishAbsent(s, rate) == AbsentResult

\* the code after the loop
Finish(s, rate) ==
    IF /\ s.run_start # None
       /\ s.run_end # None
       /\ GatePasses(DurationMs(Val(s.run_start), Val(s.run_end), rate))
    THEN EndResult(Val(s.run_start), Val(s.run_end), s.peak_db, rate)
    ELSE AbsentResult

\* -------------------------------------------------------------------- state
VARIABLES
    samples,            \* the decoded samples, in blocks
    signal,             \* the normalized signal, in blocks
    gain,               \* its gain, in dB
    sr,                 \* the sample rate detect_shout is called with
    pc,                 \* where the call is
    win, hop, offset,   \* frame_signal's locals
    idxs,               \* the frame offsets found so far
    stats,              \* the frames' (index, db, crest_db)
    median_db,
    dynamic_threshold,
    i,                  \* the next entry of stats the loop reads
    run_start, run_end, peak_db,
    result              \* the ShoutResult returned, None before

\* the calls of detect_shout_from_url on one AnalyzeService
VARIABLES
    calls,              \* each call's position and locals
    inflight,           \* the requests sent and not answered yet, by stream
    client,             \* audio_fetcher._client
    running             \* the call the event loop is running, 0 for none

\* the calls of upload_and_analyze_audio on the same AnalyzeService
VARIABLES
    uploader,           \* s3_uploader: None, or the S3Uploader and its object_acl
    uploads,            \* each call's position in upload_media, and its puts
    bucket              \* the objects stored in the S3 bucket

detector ==
    <<samples, signal, gain, sr, pc, win, hop, offset, idxs, stats, median_db,
      dynamic_threshold, i, run_start, run_end, peak_db, result>>

s3 == <<uploader, uploads, bucket>>

service == <<calls, inflight, client, running, s3>>

vars == <<detector, service>>

input == <<samples, signal, gain, sr>>
framer == <<win, hop, offset, idxs>>
policy == <<median_db, dynamic_threshold>>
run == <<run_start, run_end, peak_db>>

Locals == [run_start |-> run_start, run_end |-> run_end, peak_db |-> peak_db, ret |-> None]

Init ==
    /\ samples \in Signals
    /\ signal = << >>
    /\ gain \in GAINS
    /\ sr = TARGET_SR
    /\ pc = "normalize"
    /\ win = 0
    /\ hop = 0
    /\ offset = 0
    /\ idxs = << >>
    /\ stats = << >>
    /\ median_db = 0
    /\ dynamic_threshold = 0
    /\ i = 0
    /\ run_start = None
    /\ run_end = None
    /\ peak_db = PEAK_RESET_DB
    /\ result = None
    /\ calls = << >>
    /\ inflight = << >>
    /\ client = None
    /\ running = 0
    /\ uploader = None
    /\ uploads = << >>
    /\ bucket = {}

\* pcm16 = to_mono_16k(samples, sr), and the call detect_shout(pcm16, TARGET_SR)
Normalize ==
    /\ pc = "normalize"
    /\ signal' = ToMono16k(samples, gain)
    /\ pc' = "call"
    /\ UNCHANGED <<service, samples, gain, sr, framer, stats, policy, i, run, result>>

\* frame_signal, up to its loop
EnterFrameSignal ==
    /\ pc = "call"
    /\ win' = MsToSamples(sr, WIN_MS)
    /\ hop' = MsToSamples(sr, HOP_MS)
    /\ offset' = 0
    /\ idxs' = << >>
    /\ pc' = "framing"
    /\ UNCHANGED <<service, input, stats, policy, i, run, result>>

\* offset += hop left out
FrameLoopNoAdvance ==
    /\ pc = "framing"
    /\ FrameFits(offset, win, signal)
    /\ Len(idxs) < MaxFrames
    /\ idxs' = Append(idxs, offset)
    /\ offset' = offset
    /\ UNCHANGED <<service, input, pc, win, hop, stats, policy, i, run, result>>

\* one iteration of frame_signal's loop
FrameLoop ==
    /\ pc = "framing"
    /\ FrameFits(offset, win, signal)
    /\ hop = 0 => Len(idxs) < MaxFrames
    /\ idxs' = Append(idxs, offset)
    /\ offset' = offset + hop
    /\ UNCHANGED <<service, input, pc, win, hop, stats, policy, i, run, result>>

\* frame_signal returned no frame
NoFrames ==
    /\ pc = "framing"
    /\ ~FrameFits(offset, win, signal)
    /\ idxs = << >>
    /\ result' = AbsentResult
    /\ pc' = "done"
    /\ UNCHANGED <<service, input, framer, stats, policy, i, run>>

\* the statistics of every frame
ComputeStats ==
    /\ pc = "framing"
    /\ ~FrameFits(offset, win, signal)
    /\ idxs # << >>
    /\ stats' = StatsOf(signal, gain, idxs, win)
    /\ pc' = "threshold"
    /\ UNCHANGED <<service, input, framer, policy, i, run, result>>

\* the median, the dynamic threshold, and the loop's locals
ComputeThreshold ==
    /\ pc = "threshold"
    /\ median_db' = MedianDb(stats)
    /\ dynamic_threshold' = DynamicThreshold(MedianDb(stats))
    /\ run_start' = LoopInit.run_start
    /\ run_end' = LoopInit.run_end
    /\ peak_db' = LoopInit.peak_db
    /\ i' = 1
    /\ pc' = "scan"
    /\ UNCHANGED <<service, input, framer, stats, result>>

\* the loop's locals after one iteration, and the return from inside it
Iterate(s) ==
    /\ run_start' = s.run_start
    /\ run_end' = s.run_end
    /\ peak_db' = s.peak_db
    /\ IF s.ret = None
       THEN i' = i + 1 /\ UNCHANGED <<pc, result>>
       ELSE i' = i /\ pc' = "done" /\ result' = Val(s.ret)
    /\ UNCHANGED <<service, input, framer, stats, policy>>

Step == LoopStep(Locals, stats[i], dynamic_threshold, win, sr)

\* a loud, non-impulsive frame: the run starts or grows
ScanQualifying ==
    /\ pc = "scan"
    /\ i <= Len(stats)
    /\ Qualifies(stats[i], dynamic_threshold)
    /\ Iterate(Step)

\* another frame with a run open that passes the gate: return it
ScanEmit ==
    /\ pc = "scan"
    /\ i <= Len(stats)
    /\ ~Qualifies(stats[i], dynamic_threshold)
    /\ run_start # None
    /\ Step.ret # None
    /\ Iterate(Step)

\* another frame with a run open that fails the gate: drop it
ScanDiscard ==
    /\ pc = "scan"
    /\ i <= Len(stats)
    /\ ~Qualifies(stats[i], dynamic_threshold)
    /\ run_start # None
    /\ Step.ret = None
    /\ Iterate(Step)

\* another frame with no run open
ScanIdle ==
    /\ pc = "scan"
    /\ i <= Len(stats)
    /\ ~Qualifies(stats[i], dynamic_threshold)
    /\ run_start = None
    /\ Iterate(Step)

\* the frames are exhausted: the open run, if it passes the gate, or absent
EndOfStream ==
    /\ pc = "scan"
    /\ i > Len(stats)
    /\ result' = Finish(Locals, sr)
    /\ pc' = "done"
    /\ UNCHANGED <<service, input, framer, stats, policy, i, run>>

Next ==
    \/ Normalize
    \/ EnterFrameSignal
    \/ FrameLoop
    \/ NoFrames
    \/ ComputeStats
    \/ ComputeThreshold
    \/ ScanQualifying
    \/ ScanEmit
    \/ ScanDiscard
    \/ ScanIdle
    \/ EndOfStream

Spec == Init /\ [][Next]_vars

\* ------------------------------------------------------- sustained tones
\* the largest number of segments of a buffer with a sustained tone
MaxToneSegs == 3

\* <<magnitude, length in blocks>>: an 800 ms tone at -5 dBFS (56 %), and at
\* the rms of a sine wave of that peak (40 %), a 200 ms tone, a 100 ms
\* full-scale burst, and silence
TONE_SEGS == { <<56, 80>>, <<40, 80>>, <<56, 20>>, <<100, 10>>, <<0, 10>>, <<0, 30>> }

ToneSignals ==
    { Concat(s) : s \in UNION { [1..n -> TONE_SEGS] : n \in 0..MaxToneSegs } }

\* the state on entry, but for the samples and their gain
DetectorEntry ==
    /\ signal = << >>
    /\ sr = TARGET_SR
    /\ pc = "normalize"
    /\ win = 0
    /\ hop = 0
    /\ offset = 0
    /\ idxs = << >>
    /\ stats = << >>
    /\ median_db = 0
    /\ dynamic_threshold = 0
    /\ i = 0
    /\ run_start = None
    /\ run_end = None
    /\ peak_db = PEAK_RESET_DB
    /\ result = None

\* upload_and_analyze_audio is not called
NoUpload ==
    /\ uploader = None
    /\ uploads = << >>
    /\ bucket = {}

NoServiceCall ==
    /\ calls = << >>
    /\ inflight = << >>
    /\ client = None
    /\ running = 0
    /\ NoUpload

ToneInit ==
    /\ samples \in ToneSignals
    /\ gain \in GAINS
    /\ DetectorEntry
    /\ NoServiceCall

ToneSpec == ToneInit /\ [][Next]_vars

\* --------------------------------------------------- frames at the limits
\* the largest number of parts of a buffer with frames at the limits
MaxEdgeParts == 3

\* the parts, each a whole number of hops long: a 300 ms and a 100 ms tone at
\* -5 dBFS; 400 ms at 10 % (-20 dBFS) and 450 ms at 1 % (-40 dBFS), which is
\* 20 dB under it; a 200 ms window whose crest factor is MAX_CREST_DB (a click
\* of 60 % over 70 ms at 10 % and 10 ms at 9 %); a click at full scale in
\* 100 ms of silence; 600 ms of silence; and a shout that swells, 300 ms at
\* 10 % before 300 ms at 56 %, with a second of silence after it
EDGE_PARTS ==
    { << <<56, 30>> >>,
      << <<56, 10>> >>,
      << <<10, 40>> >>,
      << <<1, 45>> >>,
      << <<0 - 60, 1>>, <<10, 7>>, <<9, 1>>, <<0, 11>> >>,
      << <<0 - 100, 1>>, <<0, 9>> >>,
      << <<0, 60>> >>,
      << <<10, 30>>, <<56, 30>>, <<0, 100>> >> }

RECURSIVE ConcatParts(_)
ConcatParts(parts) ==
    IF parts = << >> THEN << >>
    ELSE Concat(Head(parts)) \o ConcatParts(Tail(parts))

EdgeSignals ==
    { ConcatParts(s) : s \in UNION { [1..n -> EDGE_PARTS] : n \in 0..MaxEdgeParts } }

EdgeInit ==
    /\ samples \in EdgeSignals
    /\ gain = 0
    /\ DetectorEntry
    /\ NoServiceCall

EdgeSpec == EdgeInit /\ [][Next]_vars

\* ------------------------------------------------------ other sample rates
\* the largest number of segments of a signal given with its sample rate
MaxRateSegs == 2

\* the values of sr: with 160 samples to the block, win and hop are whole
\* blocks at 1600 * h + e Hz for e = 0..4; under 10 Hz hop is 0, and under
\* 5 Hz win is 0 too; at 10 Hz hop is one sample
RATES == { 1, 9, 10, 1604, 8000, TARGET_SR, 16001, 32000 }

\* the frames of a signal at this rate are whole blocks
WholeBlocks(rate) ==
    /\ MsToSamples(rate, WIN_MS) % BLOCK = 0
    /\ MsToSamples(rate, HOP_MS) % BLOCK = 0

\* <<magnitude, length in hops>> of the signal: tones at -5 dBFS of 2, 3 and 16
\* hops, and silence of 1 and 4 hops
RATE_SEGS == { <<56, 2>>, <<56, 3>>, <<56, 16>>, <<0, 1>>, <<0, 4>> }

\* the blocks to a hop at a rate (one where the hop is of no sample)
HopBlocks(rate) == Max(1, MsToSamples(rate, HOP_MS) \div BLOCK)

RECURSIVE ConcatAtRate(_, _)
ConcatAtRate(segs, rate) ==
    IF segs = << >> THEN << >>
    ELSE Blocks(<<Head(segs)[1], Head(segs)[2] * HopBlocks(rate)>>)
             \o ConcatAtRate(Tail(segs), rate)

RateSegSeqs == UNION { [1..n -> RATE_SEGS] : n \in 0..MaxRateSegs }

\* the signals given at a rate: where the frames are not whole blocks, the
\* empty signal and one block of silence
RateSignals(rate) ==
    IF WholeBlocks(rate) THEN { ConcatAtRate(s, rate) : s \in RateSegSeqs }
    ELSE { << >>, Blocks(<<0, 1>>) }

\* detect_shout(signal, sr) called with a signal and its rate
RateInit ==
    /\ samples = << >>
    /\ sr \in RATES
    /\ signal \in RateSignals(sr)
    /\ gain = 0
    /\ pc = "call"
    /\ win = 0
    /\ hop = 0
    /\ offset = 0
    /\ idxs = << >>
    /\ stats = << >>
    /\ median_db = 0
    /\ dynamic_threshold = 0
    /\ i = 0
    /\ run_start = None
    /\ run_end = None
    /\ peak_db = PEAK_RESET_DB
    /\ result = None
    /\ NoServiceCall

RateNext ==
    \/ EnterFrameSignal
    \/ FrameLoop
    \/ NoFrames
    \/ ComputeStats
    \/ ComputeThreshold
    \/ ScanQualifying
    \/ ScanEmit
    \/ ScanDiscard
    \/ ScanIdle
    \/ EndOfStream

RateSpec == RateInit /\ [][RateNext]_vars

\* the steps of the call but the one that computes the frames' statistics
Steps ==
    \/ EnterFrameSignal
    \/ FrameLoop
    \/ NoFrames
    \/ ComputeThreshold
    \/ ScanQualifying
    \/ ScanEmit
    \/ ScanDiscard
    \/ ScanIdle
    \/ EndOfStream

\* the call leaves frame_signal with frames for the loop over them
LeaveFraming ==
    /\ pc = "framing"
    /\ ~FrameFits(offset, win, signal)
    /\ idxs # << >>
    /\ pc' = "threshold"

\* detect_shout is one synchronous call: it goes on while it has a step to
\* take (the step that computes the statistics is named by where it leads)
RateLive == RateSpec /\ WF_vars(Steps) /\ WF_pc(LeaveFraming)

\* ------------------------------------------------------- the call as a whole
RECURSIVE FrameIdxs(_, _, _, _)
\* idxs of frame_signal, from offset off on
FrameIdxs(sig, off, w, h) ==
    IF FrameFits(off, w, sig) THEN <<off>> \o FrameIdxs(sig, off + h, w, h) ELSE << >>

RECURSIVE Scan(_, _, _, _, _, _)
\* the loop over stats from entry k on, and the code after it
Scan(st, thr, w, rate, k, s) ==
    IF s.ret # None THEN Val(s.ret)
    ELSE IF k > Len(st) THEN Finish(s, rate)
    ELSE Scan(st, thr, w, rate, k + 1, LoopStep(s, st[k], thr, w, rate))

\* what detect_shout(sig, rate) returns
DetectShout(sig, g, rate) ==
    LET w == MsToSamples(rate, WIN_MS)
        ix == FrameIdxs(sig, 0, w, MsToSamples(rate, HOP_MS))
        st == StatsOf(sig, g, ix, w)
    IN  IF ix = << >> THEN AbsentResult
        ELSE Scan(st, DynamicThreshold(MedianDb(st)), w, rate, 1, LoopInit)

\* the state machine returns what the call as a whole returns
StepsAgreeWithCall == pc = "done" => result = DetectShout(signal, gain, sr)

\* ------------------------------------------------------- the analyze service
\* the number of concurrent calls of detect_shout_from_url
NumCalls == 2

Calls == 1..NumCalls

\* the bytes of an audio file: a format the decoder reads, or not, and what it
\* decodes to (segments of constant magnitude, and the recording's gain)
WavAt(segs, g, rate) == [format |-> "wav", segs |-> segs, gain |-> g, rate |-> rate]
Wav(segs, g) == WavAt(segs, g, TARGET_SR)
Junk == [format |-> "junk", segs |-> << >>, gain |-> 0, rate |-> 0]

\* the audio_url arguments; "" is the empty url
URLS == { "", "shout.wav", "quiet.wav", "short.wav", "faint.wav", "page.html",
          "phone.wav" }

\* response.content of a successful GET of u
ContentAt(u) ==
    CASE u = "shout.wav" -> Wav(<< <<0, 10>>, <<56, 45>>, <<0, 30>> >>, 0)
      [] u = "quiet.wav" -> Wav(<< <<3, 30>>, <<0, 10>> >>, 0)
      [] u = "short.wav" -> Wav(<< <<56, 10>> >>, 0)
      [] u = "faint.wav" -> Wav(<< <<100, 30>>, <<56, 30>> >>, 0 - 120)
      [] u = "phone.wav" -> WavAt(<< <<0, 10>>, <<56, 40>> >>, 0, 8000)
      [] OTHER -> Junk

\* load_audio_from_bytes: the samples and their rate, or None when sf.read raises
LoadAudioFromBytes(data) ==
    IF data.format = "wav"
    THEN Some([samples |-> Concat(data.segs), gain |-> data.gain, sr |-> data.rate])
    ELSE None

\* a call of detect_shout_from_url(audio_url) that has not run yet: where it
\* is, its locals, what it returned or raised, and the steps it has taken
NewCall(u) ==
    [at |-> "new", audio_url |-> u, audio_bytes |-> None, samples |-> None,
     pcm16 |-> None, sr |-> None, ret |-> None, exc |-> None, trace |-> << >>,
     via |-> None]

\* detect_shout is given the rate of the decoded file
DetectRateNative(s) == Val(s.samples).sr

\* the sr argument of the call of detect_shout
DetectRate(s) == TARGET_SR

\* the response of the shared client is given to another call's request
StreamShared(c) == 1

\* the response stream of call c's client.get on the shared client
StreamOf(c) == c

\* the call goes back to fetch the bytes again
OnDecodeErrorRetry(s) == [s EXCEPT !.at = "new"]

\* sf.read raised in load_audio_from_bytes: nothing catches it in the call
OnDecodeError(s) == [s EXCEPT !.at = "raised", !.exc = Some("LibsndfileError")]

Did(s, step) == [s EXCEPT !.trace = Append(@, step)]

\* detect_shout is not called step by step
NoDetectorCall ==
    /\ samples = << >>
    /\ gain = 0
    /\ DetectorEntry

ServiceInit ==
    /\ calls \in [Calls -> { NewCall(u) : u \in URLS }]
    /\ inflight = [c \in Calls |-> None]
    /\ client = None
    /\ running = 0
    /\ NoUpload
    /\ NoDetectorCall

\* other calls are resumed while a call runs between two awaits
LoopIdleAlways == TRUE

\* the event loop resumes a call only when no call is running: a call that
\* runs keeps the loop's thread until it awaits, returns or raises
LoopIdle == running = 0

\* fetch with an empty url: ValueError, before any client is made
FetchEmptyUrl(c) ==
    /\ LoopIdle
    /\ calls[c].at = "new"
    /\ calls[c].audio_url = ""
    /\ calls' = [calls EXCEPT ![c] = [Did(@, "fetch") EXCEPT !.at = "raised",
                                                            !.exc = Some("ValueError")]]
    /\ UNCHANGED <<inflight, client, running, detector, s3>>

\* a client is made for every fetch
GetClientFresh(cl, c) == Some(c)

\* _get_client, called by call c: the client, named after the call that made
\* it
GetClient(cl, c) == IF cl = None THEN Some(c) ELSE cl

\* fetch up to its await: _get_client makes the client when there is none,
\* client.get sends the request, and the call is suspended
FetchSend(c) ==
    /\ LoopIdle
    /\ calls[c].at = "new"
    /\ calls[c].audio_url # ""
    /\ client' = GetClient(client, c)
    /\ inflight' = [inflight EXCEPT ![StreamOf(c)] = Some(calls[c].audio_url)]
    /\ calls' = [calls EXCEPT ![c] = [Did(@, "fetch") EXCEPT !.at = "awaiting",
                                                            !.via = GetClient(client, c)]]
    /\ UNCHANGED <<running, detector, s3>>

\* the response arrives and the call is resumed with response.content
FetchOk(c) ==
    /\ LoopIdle
    /\ calls[c].at = "awaiting"
    /\ inflight[StreamOf(c)] # None
    /\ calls' = [calls EXCEPT ![c].at = "fetched",
                              ![c].audio_bytes = Some(ContentAt(Val(inflight[StreamOf(c)])))]
    /\ inflight' = [inflight EXCEPT ![StreamOf(c)] = None]
    /\ running' = c
    /\ UNCHANGED <<client, detector, s3>>

\* an error status, or any other exception of client.get: RuntimeError
FetchFail(c) ==
    /\ LoopIdle
    /\ calls[c].at = "awaiting"
    /\ calls' = [calls EXCEPT ![c].at = "raised", ![c].exc = Some("RuntimeError")]
    /\ inflight' = [inflight EXCEPT ![StreamOf(c)] = None]
    /\ UNCHANGED <<client, running, detector, s3>>

\* samples, sr = load_audio_from_bytes(audio_bytes)
DecodeOk(c) ==
    /\ running = c
    /\ calls[c].at = "fetched"
    /\ LoadAudioFromBytes(Val(calls[c].audio_bytes)) # None
    /\ calls' = [calls EXCEPT ![c] =
                    [Did(@, "decode") EXCEPT
                        !.at = "decoded",
                        !.samples = LoadAudioFromBytes(Val(calls[c].audio_bytes))]]
    /\ UNCHANGED <<inflight, client, running, detector, s3>>

\* load_audio_from_bytes raises
DecodeFail(c) ==
    /\ running = c
    /\ calls[c].at = "fetched"
    /\ LoadAudioFromBytes(Val(calls[c].audio_bytes)) = None
    /\ calls' = [calls EXCEPT ![c] = OnDecodeError(Did(@, "decode"))]
    /\ running' = 0
    /\ UNCHANGED <<inflight, client, detector, s3>>

\* pcm16 = to_mono_16k(samples, sr)
NormalizeCall(c) ==
    /\ running = c
    /\ calls[c].at = "decoded"
    /\ calls' = [calls EXCEPT ![c] =
                    [Did(@, "normalize") EXCEPT
                        !.at = "normalized",
                        !.pcm16 = Some(ToMono16kAt(Val(calls[c].samples).samples,
                                                   Val(calls[c].samples).gain,
                                                   Val(calls[c].samples).sr))]]
    /\ UNCHANGED <<inflight, client, running, detector, s3>>

\* shout_result = detect_shout(pcm16, TARGET_SR), and the return
DetectCall(c) ==
    /\ running = c
    /\ calls[c].at = "normalized"
    /\ calls' = [calls EXCEPT ![c] =
                    [Did(@, "detect") EXCEPT
                        !.at = "returned",
                        !.sr = Some(DetectRate(calls[c])),
                        !.ret = Some(DetectShout(Val(calls[c].pcm16),
                                                 Val(calls[c].samples).gain,
                                                 DetectRate(calls[c])))]]
    /\ running' = 0
    /\ UNCHANGED <<inflight, client, detector, s3>>

ServiceNext ==
    \E c \in Calls :
        \/ FetchEmptyUrl(c)
        \/ FetchSend(c)
        \/ FetchOk(c)
        \/ FetchFail(c)
        \/ DecodeOk(c)
        \/ DecodeFail(c)
        \/ NormalizeCall(c)
        \/ DetectCall(c)

ServiceSpec == ServiceInit /\ [][ServiceNext]_vars

\* ------------------------------------------------------ upload and analyze
\* self.object_acl: None when S3_OBJECT_ACL is empty, none, disabled or off
ACLS == { None, Some("public-read") }

\* self.s3_uploader: None when S3Uploader() raised ValueError in __init__
Uploaders == { None } \cup { Some([object_acl |-> a]) : a \in ACLS }

\* the filename arguments, each with its audio_bytes
FILES == { "shout.wav", "page.html", "empty.wav" }

EmptyBytes == [format |-> "empty", segs |-> << >>, gain |-> 0, rate |-> 0]

\* the audio_bytes argument that comes with filename f
BytesOf(f) == IF f = "empty.wav" THEN EmptyBytes ELSE ContentAt(f)

\* not content
NoContent(b) == b.format = "empty"

\* how S3 answers a put_object: it stores the object, or raises a ClientError
\* with one of two codes, or the connection fails (not a ClientError)
PUT_ANSWERS == { "ok", "AccessControlListNotSupported", "AccessDenied",
                 "EndpointConnectionError" }

IsClientError(answer) == answer \in { "AccessControlListNotSupported", "AccessDenied" }

\* a call of upload_and_analyze_audio that has not run yet: where it is, its
\* arguments, the put_object calls it made, upload_media's key, what it raised
NewUpload(f) ==
    [at |-> "new", audio_bytes |-> BytesOf(f), filename |-> f, puts |-> << >>,
     key |-> None, exc |-> None]

\* the key of call c's object: the session id and a fresh uuid tell the calls
\* apart, and the name stands for the bytes stored under the key
KeyOf(c, f) == [session_id |-> c, name |-> f]

\* build_public_url(key): a GET of it answers with the object's body
BuildPublicUrl(key) == key.name

\* the ACL argument of put_object(include_acl)
AclArgKept(acl, include_acl) == acl

AclArg(acl, include_acl) == IF include_acl /\ acl # None THEN acl ELSE None

\* every ClientError is answered with a second put
RetriesOnAnyClientError(acl, answer) == IsClientError(answer)

\* the except branch that calls put_object again
Retries(acl, answer) == acl # None /\ answer = "AccessControlListNotSupported"

\* the error is logged and the key returned
OnPutErrorLogged(s, answer) == [s EXCEPT !.at = "uploaded"]

\* a put_object raised and nothing catches it
OnPutError(s, answer) ==
    [s EXCEPT !.at = "raised",
              !.exc = Some(IF IsClientError(answer) THEN "ClientError" ELSE answer)]

\* self.client.put_object(...) with the given ACL argument, and S3's answer
PutObject(c, acl, answer) ==
    /\ bucket' = IF answer = "ok"
                 THEN bucket \cup { [key |-> KeyOf(c, uploads[c].filename),
                                     body |-> uploads[c].audio_bytes, acl |-> acl] }
                 ELSE bucket
    /\ UNCHANGED uploader

\* detect_shout_from_url has not been called
NotCalled == [NewCall("") EXCEPT !.at = "none"]

UploadInit ==
    /\ uploader \in Uploaders
    /\ uploads \in [Calls -> { NewUpload(f) : f \in FILES }]
    /\ bucket = {}
    /\ calls = [c \in Calls |-> NotCalled]
    /\ inflight = [c \in Calls |-> None]
    /\ client = None
    /\ running = 0
    /\ NoDetectorCall

\* if not self.s3_uploader: raise RuntimeError
UploadNoUploader(c) ==
    /\ LoopIdle
    /\ uploads[c].at = "new"
    /\ uploader = None
    /\ uploads' = [uploads EXCEPT ![c].at = "raised", ![c].exc = Some("RuntimeError")]
    /\ UNCHANGED <<uploader, bucket, calls, inflight, client, running, detector>>

\* upload_media with empty content: ValueError
UploadEmpty(c) ==
    /\ LoopIdle
    /\ uploads[c].at = "new"
    /\ uploader # None
    /\ NoContent(uploads[c].audio_bytes)
    /\ uploads' = [uploads EXCEPT ![c].at = "raised", ![c].exc = Some("ValueError")]
    /\ UNCHANGED <<uploader, bucket, calls, inflight, client, running, detector>>

\* upload_media up to the end of its first put_object
UploadPut(c) ==
    /\ LoopIdle
    /\ uploads[c].at = "new"
    /\ uploader # None
    /\ ~NoContent(uploads[c].audio_bytes)
    /\ \E answer \in PUT_ANSWERS :
          LET object_acl == Val(uploader).object_acl
              acl == AclArg(object_acl, object_acl # None)
              put == [acl |-> acl, answer |-> answer]
              s == [uploads[c] EXCEPT !.key = Some(KeyOf(c, uploads[c].filename)),
                                      !.puts = Append(@, put)]
              t == IF answer = "ok" THEN [s EXCEPT !.at = "uploaded"]
                   ELSE IF IsClientError(answer) /\ Retries(object_acl, answer)
                        THEN [s EXCEPT !.at = "retry"]
                   ELSE OnPutError(s, answer)
          IN  /\ PutObject(c, acl, answer)
              /\ uploads' = [uploads EXCEPT ![c] = t]
              /\ running' = IF t.at = "raised" THEN 0 ELSE c
    /\ UNCHANGED <<calls, inflight, client, detector>>

\* put_object(include_acl=False) in the except branch
UploadRetry(c) ==
    /\ running = c
    /\ uploads[c].at = "retry"
    /\ \E answer \in PUT_ANSWERS :
          LET acl == AclArg(Val(uploader).object_acl, FALSE)
              put == [acl |-> acl, answer |-> answer]
              s == [uploads[c] EXCEPT !.puts = Append(@, put)]
              t == IF answer = "ok" THEN [s EXCEPT !.at = "uploaded"]
                   ELSE OnPutError(s, answer)
          IN  /\ PutObject(c, acl, answer)
              /\ uploads' = [uploads EXCEPT ![c] = t]
              /\ running' = IF t.at = "raised" THEN 0 ELSE c
    /\ UNCHANGED <<calls, inflight, client, detector>>

\* the key is returned, the url built and detect_shout_from_url awaited: its
\* fetch sends the request and the call is suspended
UploadFetch(c) ==
    /\ running = c
    /\ uploads[c].at = "uploaded"
    /\ LET audio_url == BuildPublicUrl(Val(uploads[c].key))
       IN  /\ calls' = [calls EXCEPT ![c] =
                           [Did(NewCall(audio_url), "fetch") EXCEPT
                               !.at = "awaiting", !.via = GetClient(client, c)]]
           /\ inflight' = [inflight EXCEPT ![StreamOf(c)] = Some(audio_url)]
    /\ client' = GetClient(client, c)
    /\ uploads' = [uploads EXCEPT ![c].at = "analyzing"]
    /\ running' = 0
    /\ UNCHANGED <<uploader, bucket, detector>>

\* what upload_and_analyze_audio has returned or raised
UploadOutcome(c) ==
    IF uploads[c].at = "raised" THEN [ret |-> None, exc |-> uploads[c].exc]
    ELSE IF uploads[c].at = "analyzing" /\ calls[c].at = "returned"
         THEN [ret |-> Some([audio_url |-> calls[c].audio_url,
                             shout_detection |-> Val(calls[c].ret)]),
               exc |-> None]
    ELSE IF uploads[c].at = "analyzing" /\ calls[c].at = "raised"
         THEN [ret |-> None, exc |-> calls[c].exc]
    ELSE [ret |-> None, exc |-> None]

UploadNext ==
    \E c \in Calls :
        \/ UploadNoUploader(c)
        \/ UploadEmpty(c)
        \/ UploadPut(c)
        \/ UploadRetry(c)
        \/ UploadFetch(c)
        \/ FetchOk(c)
        \/ FetchFail(c)
        \/ DecodeOk(c)
        \/ DecodeFail(c)
        \/ NormalizeCall(c)
        \/ DetectCall(c)

UploadSpec == UploadInit /\ [][UploadNext]_vars

\* ------------------------------------------------------------------- claims
NFrames == Len(stats)

\* frame k of stats is loud and non-impulsive under the threshold in use
Q(k) == Qualifies(stats[k], dynamic_threshold)

\* frames a..b are a maximal contiguous run of qualifying frames
MaximalRun(a, b) ==
    /\ a <= b
    /\ \A k \in a..b : Q(k)
    /\ (a = 1 \/ ~Q(a - 1))
    /\ (b = NFrames \/ ~Q(b + 1))

\* (runEnd - runStart) * 1000 / sampleRate >= MIN_RUN_MS for frames a..b
SpanMeetsGate(a, b) ==
    (stats[b].index + win - stats[a].index) * 1000 >= MIN_RUN_MS * sr

SomeRunMeetsGate ==
    \E a, b \in 1..NFrames : MaximalRun(a, b) /\ SpanMeetsGate(a, b)

\* C1: detect_shout returns present = true if and only if some maximal
\* contiguous run of qualifying frames spans at least MIN_RUN_MS; with no
\* frames, or no such run, it returns present = false.
C1_PresentIffRunMeetsGate ==
    pc = "done" => (result.present <=> SomeRunMeetsGate)

\* a call returned present with a run that meets the gate, after an earlier
\* frame that did not qualify
C1_Witness ==
    /\ pc = "done"
    /\ result.present
    /\ SomeRunMeetsGate
    /\ ~Q(1)

\* the loop returned from inside, at the frame stats[i] that closed the run
MidStreamReturn == pc = "done" /\ 1 <= i /\ i <= NFrames

\* the loop ran to the end of stats
RanToEnd == pc = "done" /\ NFrames > 0 /\ i > NFrames

\* the first frame of the first maximal run that meets the gate
FirstGatedStart ==
    CHOOSE a \in 1..NFrames :
        /\ \E b \in 1..NFrames : MaximalRun(a, b) /\ SpanMeetsGate(a, b)
        /\ \A c \in 1..(a - 1) :
              ~\E b \in 1..NFrames : MaximalRun(c, b) /\ SpanMeetsGate(c, b)

\* the last frame of the maximal run that starts at frame a
RunLast(a) == CHOOSE b \in a..NFrames : MaximalRun(a, b)

\* the result reports the first run that meets the gate, and the scan stopped
\* at the frame after it
FirstRunReported ==
    LET a == FirstGatedStart
        b == RunLast(a)
    IN  /\ result.start_ms = Some(ToMs(stats[a].index, sr))
        /\ result.end_ms = Some(ToMs(stats[b].index + win, sr))
        /\ i = b + 1

\* the normalized buffers that follow the closing frame in the other buffer:
\* nothing, or one of the segments of 300 ms and more
AltTails ==
    { << >> } \cup { ToMono16k(Blocks(seg), gain) : seg \in { s \in SEGS : s[2] >= 30 } }

\* the signal up to the end of the closing frame, then t
AltSignal(t) == SubSeq(signal, 1, (stats[i].index + win) \div BLOCK) \o t

\* the dynamic threshold detect_shout computes for sig
ThresholdOf(sig) ==
    LET w == MsToSamples(sr, WIN_MS)
        ix == FrameIdxs(sig, 0, w, MsToSamples(sr, HOP_MS))
    IN  DynamicThreshold(MedianDb(StatsOf(sig, gain, ix, w)))

SameRun(r1, r2) ==
    /\ r1.start_ms = r2.start_ms
    /\ r1.end_ms = r2.end_ms
    /\ r1.peak_dbfs = r2.peak_dbfs
    /\ r1.duration_seconds = r2.duration_seconds

\* detect_shout on sig returns the run of result, or, with sameThr, computes
\* another dynamic threshold than this call did
SameRunFor(sig, sameThr) ==
    LET w == MsToSamples(sr, WIN_MS)
        ix == FrameIdxs(sig, 0, w, MsToSamples(sr, HOP_MS))
        st == StatsOf(sig, gain, ix, w)
        thr == DynamicThreshold(MedianDb(st))
    IN  (sameThr /\ thr # dynamic_threshold)
            \/ SameRun(Scan(st, thr, w, sr, 1, LoopInit), result)

\* C2 as claimed: the first run that meets the gate is reported and the scan
\* stops; whatever follows the run's closing frame in the buffer, start_ms,
\* end_ms, peak_dbfs and duration_seconds are the same.
C2_LaterFramesNeverChangeResult ==
    /\ (pc = "done" /\ result.present) => FirstRunReported
    /\ MidStreamReturn => \A t \in AltTails : SameRunFor(AltSignal(t), FALSE)

\* C2 as amended: the first run that meets the gate is reported and the scan
\* stops; what follows the closing frame changes the result only through the
\* dynamic threshold: a buffer that agrees up to the closing frame and has the
\* same dynamic threshold gives the same start_ms, end_ms, peak_dbfs and
\* duration_seconds.
C2_FirstRunWins ==
    /\ (pc = "done" /\ result.present) => FirstRunReported
    /\ MidStreamReturn => \A t \in AltTails : SameRunFor(AltSignal(t), TRUE)

\* a run was returned mid-stream although a later run meets the gate too and is
\* longer or louder, and a buffer with another tail has the same threshold
C2_Witness ==
    /\ MidStreamReturn
    /\ \E a, b \in (i + 1)..NFrames :
          /\ MaximalRun(a, b)
          /\ SpanMeetsGate(a, b)
          /\ \/ (b - a) > (i - 1) - FirstGatedStart
             \/ Round2Db(stats[b].db) > Val(result.peak_dbfs)
    /\ \E t \in AltTails :
          /\ AltSignal(t) # signal
          /\ ThresholdOf(AltSignal(t)) = dynamic_threshold

\* the trailing run: the first frame from which every frame to the end qualifies
TrailingStart ==
    CHOOSE a \in 1..NFrames : MaximalRun(a, NFrames)

\* C3: when the last frame qualifies, so that a run is open when the frames
\* are exhausted, that run is put to the same duration gate and returned as
\* present = true when it passes (and absent when it fails); no trailing
\* non-qualifying frame is needed.
C3_EndOfStreamFinalization ==
    (RanToEnd /\ Q(NFrames)) =>
        LET a == TrailingStart
        IN  IF SpanMeetsGate(a, NFrames)
            THEN /\ result.present
                 /\ result.start_ms = Some(ToMs(stats[a].index, sr))
                 /\ result.end_ms = Some(ToMs(stats[NFrames].index + win, sr))
            ELSE ~result.present

\* the frames ended with a run open, and it was returned
C3_Witness ==
    /\ RanToEnd
    /\ Q(NFrames)
    /\ result.present
    /\ Val(result.end_ms) = ToMs(SigLen(signal), sr)

AllZero(sig) == \A k \in 1..Len(sig) : sig[k] = 0

\* C5: an all-zero signal of at least one window yields present = false, the
\* threshold being the one computed from the buffer's median (the floor of
\* dbfs_from_rms plus the margin).
C5_SilenceInvariant ==
    (AllZero(signal) /\ SigLen(signal) >= MsToSamples(sr, WIN_MS)) =>
        /\ pc = "done" => ~result.present
        /\ pc \in {"scan", "done"} => dynamic_threshold = FLOOR_DBFS + MARGIN_DB

\* an all-zero signal of several windows was scanned to the end
C5_Witness ==
    /\ pc = "done"
    /\ AllZero(signal)
    /\ NFrames >= 3
    /\ ~result.present

\* C7: a signal shorter than one window, the zero-length signal included,
\* gives no frame, and detect_shout returns present = false: the call goes
\* from the framer straight to its return.
C7_EmptySignal ==
    (pc # "normalize" /\ SigLen(signal) < MsToSamples(TARGET_SR, WIN_MS)) =>
        /\ idxs = << >>
        /\ pc \in {"call", "framing", "done"}
        /\ pc = "done" => result = AbsentResult

\* a non-empty signal shorter than one window was answered
C7_Witness ==
    /\ pc = "done"
    /\ 0 < SigLen(signal)
    /\ SigLen(signal) < MsToSamples(TARGET_SR, WIN_MS)
    /\ ~AllZero(signal)
    /\ result = AbsentResult

\* sig is silent but for one segment of n blocks of magnitude a after k blocks
SegmentAt(sig, a, n, k) ==
    /\ k + n <= Len(sig)
    /\ \A j \in 1..Len(sig) : sig[j] = (IF k < j /\ j <= k + n THEN a ELSE 0)

OneSegment(sig, a, n) == \E k \in 0..Len(sig) : SegmentAt(sig, a, n, k)

\* the same buffer with its segment of n blocks made m blocks long
Extended(sig, a, n, m) ==
    LET k == CHOOSE c \in 0..Len(sig) : SegmentAt(sig, a, n, c)
    IN  SubSeq(sig, 1, k + n) \o [j \in 1..(m - n) |-> a] \o SubSeq(sig, k + n + 1, Len(sig))

\* C4: a buffer whose only loud, non-impulsive segment (a constant tone at
\* about -5 dBFS) lasts exactly 300 ms yields present = false, and the same
\* buffer with the segment extended to 450 ms yields present = true.
C4_DurationGate ==
    (pc = "done" /\ gain = 0 /\ OneSegment(signal, 56, 30)) =>
        /\ ~result.present
        /\ DetectShout(Extended(signal, 56, 30, 45), gain, sr).present

\* C6: a buffer that is silent but for one 20 ms full-scale spike never yields
\* present = true, wherever the spike falls relative to the hop grid.
C6_ImpulsiveRejection ==
    (pc = "done" /\ gain = 0 /\ OneSegment(signal, FULL_SCALE, 2)) => ~result.present

\* C8: in every result with present = true, peak_dbfs <= 0 and
\* duration_seconds >= MIN_RUN_MS / 1000.
C8_PeakAndDurationBounds ==
    (pc = "done" /\ result.present) =>
        /\ Val(result.peak_dbfs) <= 0
        /\ Val(result.duration_seconds) * 10 >= MIN_RUN_MS

\* an overdriven tone was clipped to full scale and returned with peak_dbfs = 0
C8_Witness ==
    /\ pc = "done"
    /\ result.present
    /\ gain = 0
    /\ \E k \in 1..Len(samples) : samples[k] > FULL_SCALE
    /\ Val(result.peak_dbfs) = 0

AllNull(r) ==
    /\ r.start_ms = None
    /\ r.end_ms = None
    /\ r.peak_dbfs = None
    /\ r.duration_seconds = None
    /\ r.confidence = None

NoneNull(r) ==
    /\ r.start_ms # None
    /\ r.end_ms # None
    /\ r.peak_dbfs # None
    /\ r.duration_seconds # None
    /\ r.confidence # None

\* C9: every result has present = false with start_ms, end_ms, peak_dbfs,
\* duration_seconds and confidence all null, or present = true with all five
\* non-null.
C9_OutputShape ==
    pc = "done" => IF result.present THEN NoneNull(result) ELSE AllNull(result)

\* an absent result after a run was opened and dropped
C9_Witness ==
    /\ pc = "done"
    /\ ~result.present
    /\ AllNull(result)
    /\ \E k \in 1..NFrames : Q(k)

\* C10: confidence is the same constant 0.6 in every present result, returned
\* mid-stream or at the end of the stream, whatever the peak and the duration.
C10_FixedConfidence ==
    (pc = "done" /\ result.present) => result.confidence = Some(CONFIDENCE)

\* a run longer than the gate asks for, returned mid-stream with confidence 0.6
C10_Witness ==
    /\ MidStreamReturn
    /\ result.confidence = Some(CONFIDENCE)
    /\ Val(result.duration_seconds) * 10 > MIN_RUN_MS

\* the bytes call c fetched are bytes the decoder cannot parse
Undecodable(c) ==
    /\ calls[c].audio_bytes # None
    /\ LoadAudioFromBytes(Val(calls[c].audio_bytes)) = None

\* C11: when the decoder cannot parse the fetched bytes, the call of
\* detect_shout_from_url fails with the decoder's error as it was raised; the
\* fetch and the decode ran once each, normalization and detection did not run,
\* and no ShoutResult is returned.
C11_DecodeFailure ==
    \A c \in Calls :
        (Undecodable(c) /\ calls[c].at # "fetched") =>
            /\ calls[c].at = "raised"
            /\ calls[c].exc = Some("LibsndfileError")
            /\ calls[c].trace = <<"fetch", "decode">>
            /\ calls[c].samples = None
            /\ calls[c].pcm16 = None
            /\ calls[c].ret = None

\* a call failed in the decoder while another call on the same service returned
C11_Witness ==
    \E c, d \in Calls :
        /\ Undecodable(c)
        /\ calls[c].at = "raised"
        /\ calls[c].exc = Some("LibsndfileError")
        /\ calls[d].at = "returned"

\* what detect_shout_from_url(u) gives when it is the only call and its fetch
\* succeeds
Alone(u) ==
    LET d == LoadAudioFromBytes(ContentAt(u))
    IN  IF d = None THEN [ret |-> None, exc |-> Some("LibsndfileError")]
        ELSE [ret |-> Some(DetectShout(ToMono16kAt(Val(d).samples, Val(d).gain, Val(d).sr),
                                       Val(d).gain, TARGET_SR)),
              exc |-> None]

\* C12: in every interleaving of the concurrent calls on one AnalyzeService,
\* each call works on the bytes of its own url, and what it returns (or the
\* decoder error it raises) is what the same call gives when it runs alone.
C12_ConcurrentCallsIndependent ==
    \A c \in Calls :
        /\ calls[c].audio_bytes # None =>
              calls[c].audio_bytes = Some(ContentAt(calls[c].audio_url))
        /\ calls[c].at = "returned" =>
              /\ calls[c].ret = Alone(calls[c].audio_url).ret
              /\ calls[c].exc = None
        /\ (calls[c].at = "raised" /\ calls[c].audio_bytes # None) =>
              /\ calls[c].exc = Alone(calls[c].audio_url).exc
              /\ calls[c].ret = None

\* a call ran from its response to a present result while another call, for
\* other audio, was suspended in its fetch
C12_Witness ==
    \E c, d \in Calls :
        /\ calls[c].at = "awaiting"
        /\ calls[d].at = "returned"
        /\ calls[c].audio_url # calls[d].audio_url
        /\ Val(calls[d].ret).present
        /\ client # None

\* the normalized buffer is n blocks of magnitude a and nothing else
ToneOnly(a, n) == Len(signal) = n /\ \A k \in 1..n : signal[k] = a

\* C13: an 800 ms buffer at 16 kHz that is one constant-amplitude tone at
\* -5 dBFS (in peak, 56 %, or with the rms of a sine of that peak, 40 %) yields
\* present = true with start_ms within 100 ms of 0 and duration_seconds within
\* 0.1 of 0.8.
C13_SustainedTone ==
    (pc = "done" /\ gain = 0 /\ sr = TARGET_SR /\ (ToneOnly(56, 80) \/ ToneOnly(40, 80))) =>
        /\ result.present
        /\ Val(result.start_ms) <= 100
        /\ Val(result.duration_seconds) >= 70
        /\ Val(result.duration_seconds) <= 90

\* the 800 ms tone was scanned to its end and returned as 0..800 ms
C13_Witness ==
    /\ RanToEnd
    /\ gain = 0
    /\ ToneOnly(56, 80)
    /\ result.present
    /\ result.start_ms = Some(0)
    /\ result.end_ms = Some(800)
    /\ result.duration_seconds = Some(80)

\* frame_signal has returned
Framed == pc \in {"threshold", "scan", "done"}

\* C14: at 16 kHz (win = 3200, hop = 1600 samples) frame_signal gives exactly
\* the offsets 0, 1600, 3200, ... with offset + 3200 <= len(signal), in
\* increasing order, each with the 3200 samples that start there; a trailing
\* partial window gives no frame, and consecutive frames share half a window
\* (every offset is compared when frame_signal has returned and when the call
\* returns, the last one at each step between).
C14_Framer ==
    (sr = TARGET_SR /\ pc \in {"framing", "threshold", "scan", "done"}) =>
        /\ win = 3200
        /\ hop = 1600
        /\ \A k \in (IF pc \in {"framing", "scan"} THEN {Len(idxs)} \ {0}
                      ELSE 1..Len(idxs)) :
              /\ idxs[k] = (k - 1) * 1600
              /\ idxs[k] + 3200 <= SigLen(signal)
              /\ k > 1 => (idxs[k - 1] + win) - idxs[k] = win \div 2
        /\ Framed => Len(idxs) * 1600 + 3200 > SigLen(signal)
        /\ pc = "threshold" =>
              \A k \in 1..Len(idxs) :
                  /\ Len(Slice(signal, idxs[k], idxs[k] + win)) * BLOCK = 3200
                  /\ Slice(signal, idxs[k], idxs[k] + win)
                        = [j \in 1..(3200 \div BLOCK) |-> signal[idxs[k] \div BLOCK + j]]
                  /\ stats[k] = FrameStat(signal, gain, idxs[k], win)

\* a signal with a trailing partial window was framed into several frames
C14_Witness ==
    /\ Framed
    /\ Len(idxs) >= 3
    /\ SigLen(signal) % 1600 # 0
    /\ idxs[Len(idxs)] + 3200 < SigLen(signal)
    /\ idxs[Len(idxs)] + 1600 + 3200 > SigLen(signal)

\* frames a..b qualify, and the frame before a (if any) does not
RunFrom(a, b) ==
    /\ a <= b
    /\ \A k \in a..b : Q(k)
    /\ (a = 1 \/ ~Q(a - 1))

\* run_start and run_end are the start of frame a and the end of frame b
RunIs(a, b) ==
    /\ run_start = Some(stats[a].index)
    /\ run_end = Some(stats[b].index + win)

\* C15: the interval of a present result is a maximal contiguous run: it
\* starts at the offset of a qualifying frame whose predecessor (if any) does
\* not qualify, ends at the offset of the run's last frame plus the window,
\* every frame between them qualifies, and the frame after the last one (if
\* any) does not qualify.  While the scan goes on, the open run is the run of
\* qualifying frames that ends at the frame read last.
C15_MaximalRun ==
    /\ (pc = "scan" /\ run_start # None) =>
          \E a \in 1..(i - 1) : RunFrom(a, i - 1) /\ RunIs(a, i - 1)
    /\ (pc = "scan" /\ run_start = None) => (i = 1 \/ ~Q(i - 1))
    /\ (pc = "done" /\ result.present) =>
          \E a, b \in 1..NFrames :
              /\ MaximalRun(a, b)
              /\ RunIs(a, b)
              /\ result.start_ms = Some(ToMs(stats[a].index, sr))
              /\ result.end_ms = Some(ToMs(stats[b].index + win, sr))

\* a run with a frame before it and a frame after it, neither qualifying, was
\* returned
C15_Witness ==
    /\ pc = "done"
    /\ result.present
    /\ \E a, b \in 2..(NFrames - 1) :
          /\ MaximalRun(a, b)
          /\ RunIs(a, b)
          /\ result.start_ms = Some(ToMs(stats[a].index, sr))
          /\ b > a + 2

RECURSIVE MaxDb(_, _)
\* the largest dBFS of frames a..b
MaxDb(a, b) == IF a = b THEN stats[a].db ELSE Max(stats[b].db, MaxDb(a, b - 1))

\* C16: peakDb is the entering frame's dBFS on entering a run and the maximum
\* of itself and the frame's dBFS on each extension, so in every present result
\* peak_dbfs is, to 2 decimals, the maximum dBFS over exactly the frames of the
\* emitted run, whatever the frames' dBFS, values below -120 included.
C16_PeakTracking ==
    /\ (pc = "scan" /\ run_start # None) =>
          \E a \in 1..(i - 1) :
              RunFrom(a, i - 1) /\ RunIs(a, i - 1) /\ peak_db = MaxDb(a, i - 1)
    /\ (pc = "done" /\ result.present) =>
          \E a, b \in 1..NFrames :
              /\ MaximalRun(a, b)
              /\ RunIs(a, b)
              /\ result.peak_dbfs = Some(Round2Db(MaxDb(a, b)))

\* frame k is in a run that a non-qualifying frame closes and that fails the gate
InDiscardedRun(k) ==
    \E a \in 1..k : \E b \in k..(NFrames - 1) :
        MaximalRun(a, b) /\ ~SpanMeetsGate(a, b)

\* the frame made non-qualifying under the threshold in use
Quietened(f) == [f EXCEPT !.db = dynamic_threshold - 2]

\* stats with the frames of every discarded run replaced by non-qualifying ones
WithoutDiscarded ==
    [k \in 1..NFrames |-> IF InDiscardedRun(k) THEN Quietened(stats[k]) ELSE stats[k]]

\* C17: a run that a non-qualifying frame closes and that fails the gate leaves
\* run_start, run_end and peak_db as they were before any frame was read, and
\* the result is the result for the same frames with that run's frames replaced
\* by non-qualifying frames, under the same threshold.
C17_DiscardLeavesNoTrace ==
    /\ (pc = "scan" /\ i > 1 /\ ~Q(i - 1)) =>
          /\ run_start = LoopInit.run_start
          /\ run_end = LoopInit.run_end
          /\ peak_db = LoopInit.peak_db
    /\ (pc = "done" /\ NFrames > 0) =>
          result = Scan(WithoutDiscarded, dynamic_threshold, win, sr, 1, LoopInit)

\* a run was returned after an earlier and louder run had been discarded
C17_Witness ==
    /\ pc = "done"
    /\ result.present
    /\ \E k \in 1..NFrames :
          /\ InDiscardedRun(k)
          /\ stats[k].index < Val(run_start)
          /\ stats[k].db > peak_db

\* the frame is at or over the threshold in use, and its crest factor under
\* MAX_CREST_DB
LoudAndSmooth(f) == f.db >= dynamic_threshold /\ f.crest_db < MAX_CREST_DB

\* the frame made quiet and smooth
QuietFrame(f) == [f EXCEPT !.db = dynamic_threshold - 2, !.crest_db = 0]

\* C18: a frame starts or extends a run only if its dBFS >= the threshold and
\* its crest factor < MAX_CREST_DB: after a frame is read a run is open exactly
\* when both held for it (dBFS equal to the threshold counts as loud, a crest
\* factor equal to MAX_CREST_DB as impulsive), a frame that closes a run fails
\* one of the two, and a loud but impulsive frame does to the loop what a quiet
\* frame does.
C18_LoudAndNotImpulsive ==
    /\ (pc = "scan" /\ i > 1) =>
          /\ (run_start # None) <=> LoudAndSmooth(stats[i - 1])
          /\ run_start # None => run_end = Some(stats[i - 1].index + win)
    /\ MidStreamReturn => ~LoudAndSmooth(stats[i])
    /\ (/\ pc = "scan"
        /\ i <= NFrames
        /\ stats[i].db >= dynamic_threshold
        /\ stats[i].crest_db >= MAX_CREST_DB) =>
          LoopStep(Locals, stats[i], dynamic_threshold, win, sr)
              = LoopStep(Locals, QuietFrame(stats[i]), dynamic_threshold, win, sr)

\* a run was closed, and returned, by a loud frame whose crest factor is
\* MAX_CREST_DB
C18_Witness ==
    /\ MidStreamReturn
    /\ result.present
    /\ stats[i].db >= dynamic_threshold
    /\ stats[i].crest_db = MAX_CREST_DB

\* a run of frames at exactly the threshold was returned
AtThresholdReturned ==
    /\ MidStreamReturn
    /\ result.present
    /\ \A k \in 1..(i - 1) : stats[k].db = dynamic_threshold

\* a run was closed by a loud frame with a crest factor over MAX_CREST_DB
ClosedByClick ==
    /\ MidStreamReturn
    /\ stats[i].db >= dynamic_threshold
    /\ stats[i].crest_db > MAX_CREST_DB

\* how many frames are under v dBFS, and how many over it
Under(v) == Cardinality({k \in 1..NFrames : stats[k].db < v})
Over(v) == Cardinality({k \in 1..NFrames : stats[k].db > v})

\* lo and hi are the two middle values of the frames' dBFS (the same value
\* when the number of frames is odd)
Middle(lo, hi) ==
    /\ lo <= hi
    /\ 2 * Under(lo) < NFrames
    /\ 2 * Over(lo) <= NFrames
    /\ 2 * Under(hi) <= NFrames
    /\ 2 * Over(hi) < NFrames
    /\ NFrames % 2 = 1 => lo = hi

\* C19: with at least one frame, the threshold that classifies the frames is
\* min(THRESH_DBFS, median of all frames' dBFS + 20.0), computed before the
\* scan over the whole buffer; it never exceeds THRESH_DBFS, and it is the same
\* at every frame of the call (the median is compared with the frames before
\* the first frame is read and when the call returns).
C19_AdaptiveThreshold ==
    (pc \in {"scan", "done"} /\ NFrames > 0) =>
        /\ (i = 1 \/ pc = "done") =>
              \E lo, hi \in {stats[k].db : k \in 1..NFrames} :
                  /\ Middle(lo, hi)
                  /\ 2 * median_db = lo + hi
        /\ dynamic_threshold
              = (IF median_db + 20 * DB < THRESH_DBFS THEN median_db + 20 * DB
                 ELSE THRESH_DBFS)
        /\ dynamic_threshold <= THRESH_DBFS
        /\ NFrames = Len(idxs)

\* an even number of frames whose two middle values differ, the threshold
\* 20 dB over their mean and under THRESH_DBFS, and a run returned under it
C19_Witness ==
    /\ pc = "done"
    /\ result.present
    /\ NFrames % 2 = 0
    /\ \E a, b \in 1..NFrames :
          /\ Middle(stats[a].db, stats[b].db)
          /\ stats[a].db < stats[b].db
    /\ dynamic_threshold = median_db + 20 * DB
    /\ dynamic_threshold < THRESH_DBFS

\* every frame has the dBFS of the first, and a crest factor under MAX_CREST_DB
Uniform ==
    /\ NFrames > 0
    /\ \A k \in 1..NFrames :
          stats[k].db = stats[1].db /\ stats[k].crest_db < MAX_CREST_DB

\* C20 as claimed: in a buffer whose frames all have the same dBFS at or above
\* THRESH_DBFS (and crest below MAX_CREST_DB), not every frame is classified
\* loud.
C20_UniformlyLoudNotAllLoud ==
    (pc \in {"scan", "done"} /\ Uniform /\ stats[1].db >= THRESH_DBFS) =>
        \E k \in 1..NFrames : stats[k].db < dynamic_threshold

\* C20 as amended: in a buffer whose frames all have the same dBFS at or above
\* THRESH_DBFS (and crest below MAX_CREST_DB) the threshold is THRESH_DBFS,
\* every frame is classified loud, and three frames or more are returned as one
\* run over the whole buffer; when the common dBFS is below THRESH_DBFS, no
\* frame is classified loud.
C20_UniformlyLoudAllLoud ==
    /\ (pc \in {"scan", "done"} /\ Uniform /\ stats[1].db >= THRESH_DBFS) =>
          /\ dynamic_threshold = THRESH_DBFS
          /\ \A k \in 1..NFrames : stats[k].db >= dynamic_threshold
          /\ pc = "done" =>
                /\ result.present <=> NFrames >= 3
                /\ result.present =>
                      /\ result.start_ms = Some(0)
                      /\ result.end_ms = Some(ToMs(stats[NFrames].index + win, sr))
    /\ (pc \in {"scan", "done"} /\ Uniform /\ stats[1].db < THRESH_DBFS) =>
          /\ \A k \in 1..NFrames : stats[k].db < dynamic_threshold
          /\ pc = "done" => ~result.present

\* a buffer of several frames, all at one level over THRESH_DBFS, was returned
\* as a shout from its first frame to its last
C20_Witness ==
    /\ pc = "done"
    /\ Uniform
    /\ NFrames >= 4
    /\ stats[1].db > THRESH_DBFS
    /\ result.present
    /\ result.start_ms = Some(0)

Abs(x) == IF x < 0 THEN 0 - x ELSE x

\* the sample offsets of the run that is reported: the first maximal run of
\* qualifying frames that meets the gate
ReportedStart == stats[FirstGatedStart].index
ReportedEnd == stats[RunLast(FirstGatedStart)].index + win

\* v is off * 1000 / sr rounded to the nearest integer
NearestMs(v, off) == 2 * Abs(v * sr - off * 1000) <= sr

\* v is off * 1000 / sr with its fraction dropped
TruncatedMs(v, off) == v * sr <= off * 1000 /\ off * 1000 < (v + 1) * sr

\* C21 as claimed: start_ms and end_ms are offset * 1000 / sr rounded to the
\* nearest integer millisecond, and duration_seconds is the hundredth of a
\* second nearest to (runEnd - runStart) * 1000 / sr milliseconds, at every
\* sample rate.
C21_TimingNearest ==
    (pc = "done" /\ result.present) =>
        LET runStart == ReportedStart
            runEnd == ReportedEnd
        IN  /\ NearestMs(Val(result.start_ms), runStart)
            /\ NearestMs(Val(result.end_ms), runEnd)
            /\ 2 * Abs(Val(result.duration_seconds) * 10 * sr
                          - (runEnd - runStart) * 1000) <= 10 * sr

\* C21 as amended: start_ms and end_ms are offset * 1000 / sr with the
\* fraction dropped, duration_seconds is a hundredth of a second nearest to
\* the whole milliseconds of (runEnd - runStart) * 1000 / sr, and at
\* TARGET_SR all three are exact.
C21_TimingTruncated ==
    (pc = "done" /\ result.present) =>
        LET runStart == ReportedStart
            runEnd == ReportedEnd
            len == runEnd - runStart
            secs == Val(result.duration_seconds)
        IN  /\ TruncatedMs(Val(result.start_ms), runStart)
            /\ TruncatedMs(Val(result.end_ms), runEnd)
            /\ \E d \in (10 * secs - 5)..(10 * secs + 5) : TruncatedMs(d, len)
            /\ sr = TARGET_SR =>
                  /\ Val(result.start_ms) * sr = runStart * 1000
                  /\ Val(result.end_ms) * sr = runEnd * 1000
                  /\ secs * 10 * sr = len * 1000

\* a run that starts after the first frame was returned at a rate where its
\* offsets are not whole milliseconds
C21_Witness ==
    /\ pc = "done"
    /\ result.present
    /\ ReportedStart > 0
    /\ Val(result.start_ms) * sr < ReportedStart * 1000
    /\ Val(result.end_ms) * sr < ReportedEnd * 1000

\* a duration of whole milliseconds that ends in 5 was rounded down to an odd
\* hundredth
RoundedTieDown ==
    /\ pc = "done"
    /\ result.present
    /\ ToMs(ReportedEnd - ReportedStart, sr) % 10 = 5
    /\ Val(result.duration_seconds) * 10 = ToMs(ReportedEnd - ReportedStart, sr) - 5
    /\ Val(result.duration_seconds) % 2 = 1

\* an iteration of frame_signal's loop moves the offset on
OffsetIncreases == [][idxs' # idxs => offset' > offset]_vars

\* C22 as claimed: at every positive sample rate the offset strictly
\* increases on every iteration of the framing loop, and detect_shout
\* eventually returns a ShoutResult.
C22_TerminatesAtEveryRate ==
    /\ OffsetIncreases
    /\ <>(pc = "done")

\* C22 as amended: at a sample rate of 10 Hz or more the hop is at least one
\* sample, the offset strictly increases on every iteration, there is at most
\* one frame per sample of the signal, and detect_shout eventually returns a
\* ShoutResult.
C22_TerminatesFromTenHz ==
    /\ [](sr >= 10 => (pc # "call" => hop >= 1) /\ Len(idxs) <= SigLen(signal))
    /\ [][(sr >= 10 /\ idxs' # idxs) => offset' > offset]_vars
    /\ (sr >= 10) ~> (pc = "done" /\ result # None)

\* a call at 10 Hz returned after a frame at every sample of the signal
C22_Witness ==
    /\ pc = "done"
    /\ sr = 10
    /\ hop = 1
    /\ Len(idxs) > 1
    /\ Len(idxs) = SigLen(signal) - win + 1
    /\ result # None

\* the framing loop has gone round MaxFrames times at the same offset
FramingStalled ==
    /\ pc = "framing"
    /\ hop = 0
    /\ Len(idxs) = MaxFrames
    /\ FrameFits(offset, win, signal)

\* the steps of detect_shout_from_url, in the order of its statements
PIPELINE == <<"fetch", "decode", "normalize", "detect">>

IsPrefix(s, t) == Len(s) <= Len(t) /\ s = SubSeq(t, 1, Len(s))

\* call c takes no step, or the one step that follows those it has taken
OneStepOn(c) ==
    \/ calls'[c].trace = calls[c].trace
    \/ /\ Len(calls[c].trace) < Len(PIPELINE)
       /\ calls'[c].trace = Append(calls[c].trace, PIPELINE[Len(calls[c].trace) + 1])

\* the buffer given to detect_shout lasts as long as the decoded audio
SameDuration(c) ==
    Len(Val(calls[c].pcm16)) * BLOCK * Val(calls[c].samples).sr
        = Len(Val(calls[c].samples).samples) * (Val(calls[c].samples).sr \div 100)
            * TARGET_SR

\* C23: in every call of detect_shout_from_url the steps fetch, decode,
\* normalize, detect are taken in that order, each at most once and none
\* again after a later one; a step has run only when the one before it has
\* given its value; and detect_shout is given sr = 16000 and a buffer at
\* 16 000 Hz, whatever the sample rate of the decoded file.
C23_PipelineOrder ==
    /\ [](\A c \in Calls :
            /\ IsPrefix(calls[c].trace, PIPELINE)
            /\ calls[c].audio_bytes # None => Len(calls[c].trace) >= 1
            /\ calls[c].samples # None <=> Len(calls[c].trace) >= 2 /\ ~Undecodable(c)
            /\ calls[c].pcm16 # None <=> Len(calls[c].trace) >= 3
            /\ calls[c].sr # None <=> Len(calls[c].trace) = 4
            /\ calls[c].ret # None <=> Len(calls[c].trace) = 4
            /\ calls[c].pcm16 # None => SameDuration(c)
            /\ calls[c].sr # None => calls[c].sr = Some(TARGET_SR))
    /\ [][\A c \in Calls : OneStepOn(c)]_vars

\* a call on a file recorded at 8000 Hz went through the four steps and
\* returned a shout found at 16 000 Hz
C23_Witness ==
    \E c \in Calls :
        /\ calls[c].at = "returned"
        /\ calls[c].trace = PIPELINE
        /\ Val(calls[c].samples).sr = 8000
        /\ calls[c].sr = Some(TARGET_SR)
        /\ Val(calls[c].ret).present
        /\ Val(calls[c].ret).start_ms = Some(0)

\* call c has its bytes and has neither returned nor raised
Synchronous(c) == calls[c].at \in {"fetched", "decoded", "normalized"}

\* C24: once the awaited fetch has given a call its bytes, the call decodes,
\* normalizes and detects without a step of any other call in between: while
\* it is in that stretch it is the one running call, no other call is in
\* the same stretch, and every step taken is a step of this call alone.
C24_NoYieldAfterFetch ==
    /\ [](\A c \in Calls : Synchronous(c) =>
            /\ running = c
            /\ \A d \in Calls \ {c} : ~Synchronous(d))
    /\ [][\A c \in Calls : Synchronous(c) =>
            /\ calls'[c] # calls[c]
            /\ \A d \in Calls \ {c} : calls'[d] = calls[d]
            /\ inflight' = inflight
            /\ client' = client]_vars

\* a call returned its result while the other call, whose request was sent
\* before this one got its bytes, is still suspended in its fetch
C24_Witness ==
    \E c, d \in Calls :
        /\ calls[c].at = "returned"
        /\ calls[c].trace = PIPELINE
        /\ calls[d].at = "awaiting"
        /\ inflight[StreamOf(d)] # None
        /\ running = 0

\* what the loop returns for the frames of this call when a frame is loud
\* at THRESH_DBFS or above, whatever the median
FixedPolicyResult == Scan(stats, THRESH_DBFS, win, sr, 1, LoopInit)

\* C25: every frame that qualifies at the fixed threshold THRESH_DBFS
\* qualifies at the dynamic threshold of the call, and when the loop run with
\* the fixed threshold over the same frames returns a shout, the call returns
\* a shout too, starting no later.
C25_PolicyRefinement ==
    (pc = "done" /\ NFrames > 0) =>
        /\ \A k \in 1..NFrames :
              Qualifies(stats[k], THRESH_DBFS) => Qualifies(stats[k], dynamic_threshold)
        /\ LET fixed == FixedPolicyResult
           IN  fixed.present =>
                  /\ result.present
                  /\ Val(result.start_ms) <= Val(fixed.start_ms)

\* the call returned a shout that starts before the one the fixed threshold
\* gives, on frames the lowered threshold lets in
C25_Witness ==
    /\ pc = "done"
    /\ NFrames > 0
    /\ dynamic_threshold < THRESH_DBFS
    /\ FixedPolicyResult.present
    /\ result.present
    /\ Val(result.start_ms) < Val(FixedPolicyResult.start_ms)

\* the call returned a shout where the fixed threshold gives none
AdaptiveOnly ==
    /\ pc = "done"
    /\ NFrames > 0
    /\ result.present
    /\ ~FixedPolicyResult.present

\* C26: at 16 000 Hz every result with present = true has start_ms and
\* end_ms multiples of HOP_MS with 0 <= start_ms < end_ms <= the length of
\* the signal in whole milliseconds, and end_ms - start_ms is
\* 1000 * duration_seconds and at least MIN_RUN_MS.
C26_TimingConsistency ==
    (pc = "done" /\ sr = TARGET_SR /\ result.present) =>
        LET start == Val(result.start_ms)
            end == Val(result.end_ms)
        IN  /\ start % HOP_MS = 0
            /\ end % HOP_MS = 0
            /\ 0 <= start
            /\ start < end
            /\ end <= (SigLen(signal) * 1000) \div TARGET_SR
            /\ end - start = 10 * Val(result.duration_seconds)
            /\ end - start >= MIN_RUN_MS

\* a shout that does not start at 0 was returned from a buffer whose length
\* is not a whole number of hops, and it ends before the buffer does
C26_Witness ==
    /\ pc = "done"
    /\ sr = TARGET_SR
    /\ result.present
    /\ Val(result.start_ms) > 0
    /\ ((SigLen(signal) * 1000) \div TARGET_SR) % HOP_MS # 0
    /\ Val(result.end_ms) < (SigLen(signal) * 1000) \div TARGET_SR

\* a shout was returned that ends with the buffer
EndsWithBuffer ==
    /\ pc = "done"
    /\ result.present
    /\ Val(result.end_ms) = (SigLen(signal) * 1000) \div TARGET_SR

\* the milliseconds from the start of frame a to the end of frame b
SpanMs(a, b) == ((stats[b].index + win - stats[a].index) * 1000) \div sr

\* frames a..b are a maximal run of three or more qualifying frames
LongRun(a, b) == MaximalRun(a, b) /\ b - a + 1 >= 3

\* C27: at 16 000 Hz a maximal run of k consecutive qualifying frames spans
\* (k + 1) * 100 ms; a result with present = true reports a maximal run of
\* three or more frames, never one of one or two; and when there is a maximal
\* run of three or more frames the result is present and reports the first.
C27_MinimumRunInFrames ==
    (pc = "done" /\ sr = TARGET_SR /\ NFrames > 0) =>
        /\ \A a, b \in 1..NFrames :
              MaximalRun(a, b) => SpanMs(a, b) = (b - a + 2) * HOP_MS
        /\ result.present <=> \E a, b \in 1..NFrames : LongRun(a, b)
        /\ result.present =>
              \E a, b \in 1..NFrames :
                  /\ LongRun(a, b)
                  /\ \A c, d \in 1..(a - 1) : ~LongRun(c, d)
                  /\ result.start_ms = Some(ToMs(stats[a].index, sr))
                  /\ result.end_ms = Some(ToMs(stats[b].index + win, sr))
                  /\ Val(result.duration_seconds) * 10 = (b - a + 2) * HOP_MS

\* a run of one or two frames was passed over and a later run of exactly
\* three frames was returned
C27_Witness ==
    /\ pc = "done"
    /\ sr = TARGET_SR
    /\ result.present
    /\ Val(result.duration_seconds) * 10 = MIN_RUN_MS
    /\ \E a, b \in 1..NFrames :
          /\ MaximalRun(a, b)
          /\ b - a + 1 <= 2
          /\ ToMs(stats[a].index, sr) < Val(result.start_ms)

\* a run of two frames was the only run of a call, which returned no shout
TwoFrameRunOnly ==
    /\ pc = "done"
    /\ ~result.present
    /\ \E a \in 1..(NFrames - 1) : MaximalRun(a, a + 1)
    /\ \A a, b \in 1..NFrames : MaximalRun(a, b) => b = a + 1

\* a run of one frame was the only run of a call, which returned no shout
SingleFrameRunOnly ==
    /\ pc = "done"
    /\ ~result.present
    /\ \E a \in 1..NFrames : MaximalRun(a, a)
    /\ \A a, b \in 1..NFrames : MaximalRun(a, b) => a = b

\* upload_media of call c has returned its key
KeyReturned(c) == uploads[c].at \in {"uploaded", "analyzing"}

\* the object call c put is in the bucket
Stored(c) == \E o \in bucket : o.key = KeyOf(c, uploads[c].filename)

\* C28: a call of upload_media makes at most two put_object calls; the first
\* carries the configured ACL, if any; there is a second only when an ACL is
\* configured and the first raised AccessControlListNotSupported, and it
\* carries no ACL; any other failure of the first put, and any failure of
\* the second, is raised with no further put; empty content raises
\* ValueError with no put; and the key is returned only when the last put
\* stored the object.
C28_UploadRetry ==
    \A c \in Calls :
        LET u == uploads[c]
            n == Len(u.puts)
        IN  /\ n <= 2
            /\ n >= 1 => u.puts[1].acl = Val(uploader).object_acl
            /\ n = 2 =>
                  /\ Val(uploader).object_acl # None
                  /\ u.puts[1].answer = "AccessControlListNotSupported"
                  /\ u.puts[2].acl = None
            /\ (n = 1 /\ u.puts[1].answer # "ok"
                    /\ ~(Val(uploader).object_acl # None
                          /\ u.puts[1].answer = "AccessControlListNotSupported")) =>
                  /\ u.at = "raised"
                  /\ u.exc = Some(IF IsClientError(u.puts[1].answer)
                                  THEN "ClientError" ELSE u.puts[1].answer)
            /\ (n = 2 /\ u.puts[2].answer # "ok") => u.at = "raised" /\ u.exc # None
            /\ (NoContent(u.audio_bytes) /\ u.at # "new") =>
                  /\ n = 0
                  /\ u.at = "raised"
                  /\ u.exc = Some(IF uploader = None THEN "RuntimeError" ELSE "ValueError")
            /\ KeyReturned(c) <=> (n >= 1 /\ u.puts[n].answer = "ok")
            /\ KeyReturned(c) => Stored(c)
            /\ Stored(c) <=> \E k \in 1..n : u.puts[k].answer = "ok"

\* a first put with the ACL was refused with AccessControlListNotSupported,
\* the second, without ACL, stored the object, and the key was returned
C28_Witness ==
    \E c \in Calls :
        /\ Len(uploads[c].puts) = 2
        /\ uploads[c].puts[1] = [acl |-> Some("public-read"),
                                 answer |-> "AccessControlListNotSupported"]
        /\ uploads[c].puts[2] = [acl |-> None, answer |-> "ok"]
        /\ KeyReturned(c)
        /\ \E o \in bucket : o.key = Val(uploads[c].key) /\ o.acl = None

\* with no ACL configured, AccessControlListNotSupported was raised after one
\* put
NoRetryWithoutAcl ==
    \E c \in Calls :
        /\ uploader = Some([object_acl |-> None])
        /\ uploads[c].puts = << [acl |-> None, answer |-> "AccessControlListNotSupported"] >>
        /\ uploads[c].at = "raised"

\* the second put failed too
RetryFailed ==
    \E c \in Calls :
        /\ Len(uploads[c].puts) = 2
        /\ uploads[c].puts[2].answer # "ok"
        /\ uploads[c].at = "raised"

\* detect_shout_from_url of call c has started: its fetch was called
FetchStarted(c) == calls[c] # NotCalled

\* C29: with no S3 uploader every call of upload_and_analyze_audio raises
\* RuntimeError, with no put and no fetch; otherwise the fetch of a call starts
\* only when its put has stored the object, for the url of that object; a
\* call whose upload raised never fetches; a call whose fetch or decode
\* failed returns nothing and its object stays in the bucket; and no step
\* ever takes an object out of the bucket.
C29_UploadThenDetect ==
    /\ [](uploader = None =>
             /\ bucket = {}
             /\ client = None
             /\ \A c \in Calls :
                   /\ uploads[c].puts = << >>
                   /\ ~FetchStarted(c)
                   /\ inflight[c] = None
                   /\ uploads[c].at # "new" =>
                         UploadOutcome(c) = [ret |-> None, exc |-> Some("RuntimeError")])
    /\ [](\A c \in Calls :
             /\ FetchStarted(c) =>
                   /\ uploads[c].at = "analyzing"
                   /\ uploads[c].puts # << >>
                   /\ uploads[c].puts[Len(uploads[c].puts)].answer = "ok"
                   /\ Stored(c)
                   /\ calls[c].audio_url = BuildPublicUrl(Val(uploads[c].key))
                   /\ Len(calls[c].trace) >= 1
             /\ uploads[c].at = "raised" => ~FetchStarted(c) /\ UploadOutcome(c).ret = None
             /\ calls[c].at = "raised" =>
                   /\ Stored(c)
                   /\ UploadOutcome(c).ret = None
                   /\ UploadOutcome(c).exc = calls[c].exc
                   /\ calls[c].exc # None
             /\ UploadOutcome(c).ret # None =>
                   /\ calls[c].at = "returned"
                   /\ Stored(c)
                   /\ Val(UploadOutcome(c).ret).audio_url
                         = BuildPublicUrl(Val(uploads[c].key)))
    /\ [][bucket \subseteq bucket']_vars

\* one call's object was stored and its fetch failed, another's was stored
\* and the decoder failed on it: both objects are in the bucket and neither
\* call returned a result
C29_Witness ==
    \E c, d \in Calls :
        /\ calls[c].at = "raised"
        /\ calls[c].exc = Some("RuntimeError")
        /\ calls[d].at = "raised"
        /\ calls[d].exc = Some("LibsndfileError")
        /\ Stored(c)
        /\ Stored(d)
        /\ UploadOutcome(c).ret = None
        /\ UploadOutcome(d).ret = None

\* a call returned the url and the detection of what it uploaded
UploadReturned ==
    \E c \in Calls :
        /\ UploadOutcome(c).ret # None
        /\ Val(UploadOutcome(c).ret).shout_detection.present

\* with no uploader a call raised RuntimeError
UploaderMissing ==
    \E c \in Calls :
        /\ uploader = None
        /\ UploadOutcome(c).exc = Some("RuntimeError")

\* call c has been given a client by _get_client
HasClient(c) == calls[c].via # None

\* C30: in every interleaving of the concurrent fetches on one AudioFetcher
\* at most one client is made: _client, once set, is never set again, it is
\* set only by a fetch with a url, and every call that got a client got that
\* one; a fetch with an empty url raises ValueError and makes no client.
C30_SingleClient ==
    /\ [](\A c \in Calls :
            /\ HasClient(c) => calls[c].via = client
            /\ HasClient(c) <=> (calls[c].audio_url # "" /\ calls[c].at # "new")
            /\ (calls[c].audio_url = "" /\ calls[c].at # "new") =>
                  /\ calls[c].at = "raised"
                  /\ calls[c].exc = Some("ValueError")
                  /\ calls[c].audio_bytes = None)
    /\ [](client # None <=> \E c \in Calls : HasClient(c))
    /\ [][client # None => client' = client]_vars
    /\ [][\A c \in Calls :
            (calls[c].audio_url = "" /\ calls'[c] # calls[c]) => client' = client]_vars

\* the second call to fetch was given the client the first one made, while
\* the first was still suspended in its get
C30_Witness ==
    \E c, d \in Calls :
        /\ c # d
        /\ client = Some(c)
        /\ calls[c].at = "awaiting"
        /\ calls[d].via = Some(c)
        /\ calls[d].at = "awaiting"

\* a fetch with an empty url raised when no client had been made, and the
\* client was made later by the other call
ClientAfterEmptyUrl ==
    \E c, d \in Calls :
        /\ calls[c].audio_url = ""
        /\ calls[c].exc = Some("ValueError")
        /\ calls[c].via = None
        /\ client = Some(d)

====
